---- MODULE Spec2Model ----
(***************************************************************************)
(* Py2UML: the class-structure extractor (code_read_parser.py) and the     *)
(* JSON / DOT writers (UML_and_json_creator.py).                           *)
(*                                                                         *)
(* Syntax trees are records tagged by the field "node" (the ast class).    *)
(* Python dicts are insertion-ordered: a dict is a sequence of             *)
(* [key, value] records with pairwise distinct keys.                       *)
(* A Python exception raised inside a helper is the field "raised" of the  *)
(* value the helper returns; every caller propagates it.                   *)
(***************************************************************************)
EXTENDS Integers, Sequences, FiniteSets, TLC

VARIABLES
    classes_info,   \* CodeReadParser.classes_info
    classes_path,   \* CodeReadParser.classes_path
    py_files,       \* the source units the pass has iterated over so far
    reported,       \* reported[i]: unit i ended in the except branch
    creator,        \* the JSONSaver / UMLCreator object under use
    files,          \* file system: the files the writers create
    outcome         \* how the last writer operation ended

vars == <<classes_info, classes_path, py_files, reported, creator, files, outcome>>

(***************************************************************************)
(* Bounds                                                                  *)
(***************************************************************************)
MaxFiles == 2
MaxClasses == 1
MaxBody == 2
MaxArgs == 2
MaxInitBody == 1
MaxModelClasses == 2

(***************************************************************************)
(* Python dict                                                             *)
(***************************************************************************)
EmptyDict == <<>>

DictKeys(d) == {d[i].key : i \in DOMAIN d}

DictHas(d, k) == \E i \in DOMAIN d : d[i].key = k

DictGet(d, k) == d[CHOOSE i \in DOMAIN d : d[i].key = k].value

DictSet(d, k, v) ==
    IF DictHas(d, k)
    THEN [i \in DOMAIN d |-> IF d[i].key = k THEN [key |-> k, value |-> v] ELSE d[i]]
    ELSE Append(d, [key |-> k, value |-> v])

(***************************************************************************)
(* Syntax tree nodes                                                       *)
(***************************************************************************)
Absent == [node |-> "Absent"]                 \* a field holding None
Name(id) == [node |-> "Name", id |-> id]
Attribute(value, attr) == [node |-> "Attribute", value |-> value, attr |-> attr]
Subscript(value, slice) == [node |-> "Subscript", value |-> value, slice |-> slice]
Constant(type) == [node |-> "Constant", type |-> type]
Call(func) == [node |-> "Call", func |-> func]
TupleExpr == [node |-> "Tuple"]
Deep == [node |-> "Deep"]                     \* an expression nested deeper than the recursion limit

Arg(arg, annotation) == [arg |-> arg, annotation |-> annotation]
Assign(targets, value) == [node |-> "Assign", targets |-> targets, value |-> value]
AnnAssign(target, annotation) == [node |-> "AnnAssign", target |-> target, annotation |-> annotation]
Pass == [node |-> "Pass"]
FunctionDef(name, decorator_list, args, returns, body) ==
    [node |-> "FunctionDef", name |-> name, args |-> args, decorator_list |-> decorator_list,
     returns |-> returns, body |-> body]
ClassDef(name, bases, body) == [node |-> "ClassDef", name |-> name, bases |-> bases, body |-> body]

\* ast.unparse: the source text of an expression
RECURSIVE unparse(_)
unparse(e) ==
    CASE e.node = "Name" -> e.id
      [] e.node = "Attribute" -> unparse(e.value) \o "." \o e.attr
      [] e.node = "Subscript" -> unparse(e.value) \o "[" \o unparse(e.slice) \o "]"
      [] e.node = "Constant" -> IF e.type = "str" THEN "'s'" ELSE IF e.type = "int" THEN "1" ELSE "None"
      [] e.node = "Call" -> unparse(e.func) \o "()"
      [] OTHER -> "()"

\* ast.unparse raises RecursionError on an expression nested too deeply
unparse_raises(e) == e.node = "Deep"

\* children of a node, as ast.iter_child_nodes yields the statements below it
iter_child_nodes(n) ==
    IF n.node \in {"ClassDef", "FunctionDef"} THEN n.body ELSE <<>>

\* ast.walk: breadth-first order over the todo queue
RECURSIVE walk(_)
walk(todo) ==
    IF todo = <<>> THEN <<>>
    ELSE <<Head(todo)>> \o walk(Tail(todo) \o iter_child_nodes(Head(todo)))

(***************************************************************************)
(* CodeReadParser                                                          *)
(***************************************************************************)
project_path == <<"proj">>

\* os.path.relpath(file_path, project_path) on path components
file_path_to_relative_path(file_path) ==
    SubSeq(file_path, Len(project_path) + 1, Len(file_path))

\* the parser state threaded through the helpers
ParserState(info, path, raised) == [classes_info |-> info, classes_path |-> path, raised |-> raised]

\* mutant: a name already in attributes keeps its first label
SetAttribute_keep_first(st, class_name, attr_name, attr_type) ==
    LET info == DictGet(st.classes_info, class_name)
        info2 == [info EXCEPT !.attributes =
                     IF DictHas(@, attr_name) THEN @ ELSE DictSet(@, attr_name, attr_type)]
    IN [st EXCEPT !.classes_info = DictSet(@, class_name, info2)]

SetAttribute(st, class_name, attr_name, attr_type) ==
    LET info == DictGet(st.classes_info, class_name)
        info2 == [info EXCEPT !.attributes = DictSet(@, attr_name, attr_type)]
    IN [st EXCEPT !.classes_info = DictSet(@, class_name, info2)]

Raise(st) == [st EXCEPT !.raised = TRUE]

\* one iteration of the loop of _extract_arguments
extract_argument(acc, arg) ==
    IF arg.arg # "self"
    THEN IF arg.annotation.node # "Absent"
         THEN IF unparse_raises(arg.annotation)
              THEN [acc EXCEPT !.raised = TRUE]
              ELSE [acc EXCEPT !.val = Append(@, arg.arg \o ": " \o unparse(arg.annotation))]
         ELSE [acc EXCEPT !.val = Append(@, arg.arg \o ": Any")]
    ELSE acc

RECURSIVE extract_arguments_from(_, _, _)
extract_arguments_from(arguments, i, acc) ==
    IF i > Len(arguments) \/ acc.raised THEN acc
    ELSE extract_arguments_from(arguments, i + 1, extract_argument(acc, arguments[i]))

\* mutant: the first parameter is dropped by position, the others are kept
extract_arguments_skip_first(arguments) ==
    [raised |-> \E i \in DOMAIN arguments : i > 1 /\ unparse_raises(arguments[i].annotation),
     val |-> [i \in 1..(Len(arguments) - 1) |->
                 arguments[i + 1].arg \o ": " \o
                 (IF arguments[i + 1].annotation.node = "Absent" THEN "Any"
                  ELSE unparse(arguments[i + 1].annotation))]]

extract_arguments(arguments) ==
    extract_arguments_from(arguments, 1, [raised |-> FALSE, val |-> <<>>])

\* [e.id for e in exprs if isinstance(e, ast.Name)]
RECURSIVE name_ids(_)
name_ids(exprs) ==
    IF exprs = <<>> THEN <<>>
    ELSE (IF Head(exprs).node = "Name" THEN <<Head(exprs).id>> ELSE <<>>)
         \o name_ids(Tail(exprs))

extract_return_type(method_node) ==
    IF method_node.returns.node # "Absent"
    THEN [raised |-> unparse_raises(method_node.returns),
          val |-> IF unparse_raises(method_node.returns) THEN "" ELSE unparse(method_node.returns)]
    ELSE [raised |-> FALSE, val |-> "None"]

\* hasattr(stmt, 'annotation'): only ast.AnnAssign nodes have the field
hasattr_annotation(stmt) == stmt.node = "AnnAssign"

\* one target of one ast.Assign statement of __init__
process_init_target(st, class_name, stmt, target) ==
    IF target.node = "Attribute" /\ target.value.node = "Name"
    THEN IF target.value.id = "self"
         THEN IF hasattr_annotation(stmt)
              THEN IF unparse_raises(stmt.annotation) THEN Raise(st)
                   ELSE SetAttribute(st, class_name, target.attr, unparse(stmt.annotation))
              ELSE SetAttribute(st, class_name, target.attr, "Any")
         ELSE st
    ELSE st

RECURSIVE process_init_targets(_, _, _, _)
process_init_targets(st, class_name, stmt, i) ==
    IF i > Len(stmt.targets) \/ st.raised THEN st
    ELSE process_init_targets(process_init_target(st, class_name, stmt, stmt.targets[i]),
                              class_name, stmt, i + 1)

\* one statement of the body of __init__
process_init_stmt(st, class_name, stmt) ==
    IF stmt.node = "Assign" THEN process_init_targets(st, class_name, stmt, 1) ELSE st

RECURSIVE process_init_method_from(_, _, _, _)
process_init_method_from(st, class_name, init_node, i) ==
    IF i > Len(init_node.body) \/ st.raised THEN st
    ELSE process_init_method_from(process_init_stmt(st, class_name, init_node.body[i]),
                                  class_name, init_node, i + 1)

process_init_method(st, class_name, init_node) ==
    process_init_method_from(st, class_name, init_node, 1)

\* mutant: a later definition of a method name replaces the earlier entry
AppendMethod_unique(st, class_name, method_info) ==
    LET info == DictGet(st.classes_info, class_name)
        others == SelectSeq(info.methods, LAMBDA m : m.name # method_info.name)
        info2 == [info EXCEPT !.methods = Append(others, method_info)]
    IN [st EXCEPT !.classes_info = DictSet(@, class_name, info2)]

AppendMethod(st, class_name, method_info) ==
    LET info == DictGet(st.classes_info, class_name)
        info2 == [info EXCEPT !.methods = Append(@, method_info)]
    IN [st EXCEPT !.classes_info = DictSet(@, class_name, info2)]

process_method(st, class_name, method_node) ==
    LET a == extract_arguments(method_node.args)
        r == extract_return_type(method_node)
        method_info == [name |-> method_node.name,
                        args |-> a.val,
                        decorators |-> name_ids(method_node.decorator_list),
                        return_type |-> r.val]
    IN IF a.raised \/ r.raised THEN Raise(st)
       ELSE IF method_node.name = "__init__"
            THEN process_init_method(st, class_name, method_node)
            ELSE AppendMethod(st, class_name, method_info)

\* one target of a class-body ast.Assign
process_class_attribute_target(st, class_name, assign_node, target) ==
    IF target.node = "Name"
    THEN SetAttribute(st, class_name, target.id,
                      IF assign_node.value.node = "Constant" THEN assign_node.value.type ELSE "Any")
    ELSE st

RECURSIVE process_class_attribute_from(_, _, _, _)
process_class_attribute_from(st, class_name, assign_node, i) ==
    IF i > Len(assign_node.targets) THEN st
    ELSE process_class_attribute_from(
             process_class_attribute_target(st, class_name, assign_node, assign_node.targets[i]),
             class_name, assign_node, i + 1)

process_class_attribute(st, class_name, assign_node) ==
    process_class_attribute_from(st, class_name, assign_node, 1)

process_annotated_attribute(st, class_name, ann_assign_node) ==
    IF ann_assign_node.target.node = "Name"
    THEN IF unparse_raises(ann_assign_node.annotation) THEN Raise(st)
         ELSE SetAttribute(st, class_name, ann_assign_node.target.id,
                           unparse(ann_assign_node.annotation))
    ELSE st

\* one iteration of the loop of _extract_class_details
extract_body_item(st, class_name, body_item) ==
    IF body_item.node = "FunctionDef" THEN process_method(st, class_name, body_item)
    ELSE IF body_item.node = "Assign" THEN process_class_attribute(st, class_name, body_item)
    ELSE IF body_item.node = "AnnAssign" THEN process_annotated_attribute(st, class_name, body_item)
    ELSE st

RECURSIVE extract_class_details_from(_, _, _, _)
extract_class_details_from(st, class_name, class_node, i) ==
    IF i > Len(class_node.body) \/ st.raised THEN st
    ELSE extract_class_details_from(extract_body_item(st, class_name, class_node.body[i]),
                                    class_name, class_node, i + 1)

extract_class_details(st, class_name, class_node) ==
    extract_class_details_from(st, class_name, class_node, 1)


\* mutant: a name already registered keeps its entry, the new body is extracted on top of it
register_class_merge(st, file_path, node) ==
    LET fresh == [attributes |-> EmptyDict, methods |-> <<>>,
                  parent_classes |-> name_ids(node.bases)]
        st1 == [st EXCEPT !.classes_info = IF DictHas(@, node.name) THEN @
                                            ELSE DictSet(@, node.name, fresh),
                          !.classes_path = DictSet(@, node.name, file_path_to_relative_path(file_path))]
    IN extract_class_details(st1, node.name, node)

\* mutant: a name already registered keeps the path of its first unit
register_class_first_path(st, file_path, node) ==
    LET fresh == [attributes |-> EmptyDict, methods |-> <<>>,
                  parent_classes |-> name_ids(node.bases)]
        st1 == [st EXCEPT !.classes_info = DictSet(@, node.name, fresh),
                          !.classes_path = IF DictHas(@, node.name) THEN @
                                            ELSE DictSet(@, node.name,
                                                         file_path_to_relative_path(file_path))]
    IN extract_class_details(st1, node.name, node)

\* the body of the loop of _register_classes for one ast.ClassDef node
register_class(st, file_path, node) ==
    LET fresh == [attributes |-> EmptyDict, methods |-> <<>>,
                  parent_classes |-> name_ids(node.bases)]
        st1 == [st EXCEPT !.classes_info = DictSet(@, node.name, fresh),
                          !.classes_path = DictSet(@, node.name, file_path_to_relative_path(file_path))]
    IN extract_class_details(st1, node.name, node)

RECURSIVE register_classes_from(_, _, _, _)
register_classes_from(st, file_path, nodes, i) ==
    IF i > Len(nodes) \/ st.raised THEN st
    ELSE register_classes_from(
             IF nodes[i].node = "ClassDef" THEN register_class(st, file_path, nodes[i]) ELSE st,
             file_path, nodes, i + 1)

\* tree is the body of the ast.Module
register_classes(st, file_path, tree) ==
    register_classes_from(st, file_path, walk(tree), 1)

\* one iteration of the loop of _parse_all_files: ast.parse raises on a unit
\* that is not valid source; any exception ends the iteration in the except
\* branch, which prints and goes on with the next file
parse_file(u) ==
    LET st == IF u.parses
              THEN register_classes(ParserState(classes_info, classes_path, FALSE), u.file_path, u.tree)
              ELSE ParserState(classes_info, classes_path, TRUE)
    IN /\ classes_info' = st.classes_info
       /\ classes_path' = st.classes_path
       /\ py_files' = Append(py_files, u)
       /\ reported' = Append(reported, st.raised)
       /\ UNCHANGED <<creator, files, outcome>>

(***************************************************************************)
(* JSONSaver and UMLCreator                                                *)
(*                                                                         *)
(* The model handed to the writers is arbitrary Python data: a value is a  *)
(* record tagged by "type".                                                *)
(***************************************************************************)
PyNone == [type |-> "NoneType"]
PyInt == [type |-> "int"]
PyStr(s) == [type |-> "str", value |-> s]
PyList(items) == [type |-> "list", items |-> items]
PyDict(items) == [type |-> "dict", items |-> items]

\* bool(v)
truthy(v) ==
    CASE v.type = "NoneType" -> FALSE
      [] v.type \in {"list", "dict"} -> v.items # <<>>
      [] v.type = "str" -> v.value # ""
      [] OTHER -> TRUE

\* iter(v) raises TypeError on a value that is not iterable
iter_raises(v) == v.type \notin {"list", "dict", "str"}

\* the elements a for loop over v sees: a dict yields its keys
iter_items(v) ==
    CASE v.type = "list" -> v.items
      [] v.type = "dict" -> [i \in DOMAIN v.items |-> PyStr(v.items[i].key)]
      [] OTHER -> <<>>

NoError == ""
EmptyModelError == "ValueError: classes_info is empty."
NotValidError == "ValueError: classes_info is not valid."
TwoSourcesError == "ValueError: Only to choose one data source, classes_info or json_path."

required_keys == {"attributes", "methods", "parent_classes"}

JsonPath == "classes_info.json"
DotPath == "temp.dot"

\* JSONSaver._validate_classes_info for one (cls, info) pair: the exception it raises, if any
json_validate_class(info) ==
    IF ~(required_keys \subseteq DictKeys(info.items)) THEN "KeyError"
    ELSE IF DictGet(info.items, "attributes").type # "dict" THEN "TypeError"
    ELSE IF iter_raises(DictGet(info.items, "methods")) THEN "TypeError"
    ELSE IF \E i \in DOMAIN iter_items(DictGet(info.items, "methods")) :
                iter_items(DictGet(info.items, "methods"))[i].type # "dict"
         THEN "TypeError"
    ELSE NoError

\* the exception that ends a loop, given what each iteration would raise
first_error(errors) ==
    IF \E i \in DOMAIN errors : errors[i] # NoError
    THEN errors[CHOOSE i \in DOMAIN errors :
                   /\ errors[i] # NoError
                   /\ \A j \in 1..(i - 1) : errors[j] = NoError]
    ELSE NoError

\* JSONSaver._validate_classes_info: the exception raised, NoError when it returns True
JSONSaver_validate_classes_info(c) ==
    IF ~truthy(c.classes_info) THEN EmptyModelError
    ELSE IF c.classes_info.type # "dict" THEN "TypeError"
    ELSE first_error([i \in DOMAIN c.classes_info.items |-> json_validate_class(c.classes_info.items[i].value)])

\* UMLCreator._validate_classes_info for one (cls, info) pair
uml_validate_class(info) ==
    IF ~(required_keys \subseteq DictKeys(info.items)) THEN "KeyError" ELSE NoError

\* UMLCreator._validate_classes_info: the exception raised, NoError when it returns (None)
UMLCreator_validate_classes_info(c) ==
    IF c.classes_info.type # "dict" THEN "TypeError"
    ELSE first_error([i \in DOMAIN c.classes_info.items |-> uml_validate_class(c.classes_info.items[i].value)])

\* the rows of one node block; the exception generate_dot raises building them
attribute_rows(attributes) ==
    [i \in DOMAIN attributes.items |->
        "- " \o attributes.items[i].key \o ": " \o attributes.items[i].value]

method_row(m) ==
    "+ " \o DictGet(m.items, "name") \o "(): " \o DictGet(m.items, "return_type")

method_row_error(m) ==
    IF m.type # "dict" THEN "TypeError"
    ELSE IF ~({"name", "return_type"} \subseteq DictKeys(m.items)) THEN "KeyError"
    ELSE NoError

\* the first loop of generate_dot for one (cls, info) pair: the exception it raises, if any
dot_node_error(info) ==
    IF ~DictHas(info.items, "attributes") THEN "KeyError"
    ELSE IF DictGet(info.items, "attributes").type # "dict" THEN "AttributeError"
    ELSE IF ~DictHas(info.items, "methods") THEN "KeyError"
    ELSE IF iter_raises(DictGet(info.items, "methods")) THEN "TypeError"
    ELSE LET ms == iter_items(DictGet(info.items, "methods"))
         IN first_error([i \in DOMAIN ms |-> method_row_error(ms[i])])

\* class_template.format(...): the node block of one class
dot_node(cls, info) ==
    LET ms == iter_items(DictGet(info.items, "methods"))
    IN [kind |-> "node",
        class_name |-> cls,
        attributes |-> attribute_rows(DictGet(info.items, "attributes")),
        methods |-> [i \in DOMAIN ms |-> method_row(ms[i])]]

\* the second loop of generate_dot for one (cls, info) pair
dot_edge_error(info) ==
    IF ~DictHas(info.items, "parent_classes") THEN "KeyError"
    ELSE IF iter_raises(DictGet(info.items, "parent_classes")) THEN "TypeError"
    ELSE NoError

dot_edge(parent, cls) ==
    [kind |-> "edge", tail |-> parent, head |-> cls,
     text |-> parent \o " -> " \o cls \o " [arrowhead=onormal];"]

\* mutant: no edge for a parent that is no class of the registry
dot_edges_known_parents(cls, info) ==
    LET ps == SelectSeq(DictGet(info.items, "parent_classes").items,
                        LAMBDA p : DictHas(creator.classes_info.items, p))
    IN [i \in DOMAIN ps |-> dot_edge(ps[i], cls)]

dot_edges(cls, info) ==
    LET ps == DictGet(info.items, "parent_classes").items
    IN [i \in DOMAIN ps |-> dot_edge(ps[i], cls)]

RECURSIVE dot_all_edges(_, _)
dot_all_edges(items, i) ==
    IF i > Len(items) THEN <<>>
    ELSE dot_edges(items[i].key, items[i].value) \o dot_all_edges(items, i + 1)

\* generate_dot: the lines of the graph description, or the exception raised
generate_dot(c) ==
    LET items == c.classes_info.items
        e1 == first_error([i \in DOMAIN items |-> dot_node_error(items[i].value)])
        e2 == first_error([i \in DOMAIN items |-> dot_edge_error(items[i].value)])
    IN IF e1 # NoError THEN [raised |-> e1, dot |-> <<>>]
       ELSE IF e2 # NoError THEN [raised |-> e2, dot |-> <<>>]
       ELSE [raised |-> NoError,
             dot |-> <<[kind |-> "open", text |-> "digraph G {"]>>
                     \o [i \in DOMAIN items |-> dot_node(items[i].key, items[i].value)]
                     \o dot_all_edges(items, 1)
                     \o <<[kind |-> "close", text |-> "}"]>>]

NoCreator == [class |-> "none"]

Outcome(op, result) == [op |-> op, result |-> result]

\* JSONSaver(classes_info, json_path)
NewJSONSaver(ci) ==
    /\ creator = NoCreator
    /\ creator' = [class |-> "JSONSaver", has_classes_info |-> TRUE, classes_info |-> ci,
                   json_path |-> JsonPath]
    /\ outcome' = Outcome("__init__", NoError)
    /\ UNCHANGED <<classes_info, classes_path, py_files, reported, files>>

\* load_from_json: the file's value, or the exception raised
load_from_json(json_path) ==
    IF ~DictHas(files, json_path) THEN [raised |-> "FileNotFoundError", data |-> PyNone]
    ELSE IF DictGet(files, json_path).type # "dict" THEN [raised |-> "TypeError", data |-> PyNone]
    ELSE [raised |-> NoError, data |-> DictGet(files, json_path)]

\* UMLCreator(classes_info, json_path, uml_path); json_path "" stands for None
\* (both are false in the tests of __init__); an exception leaves no object
NewUMLCreator(ci, json_path) ==
    LET base == [class |-> "UMLCreator", has_classes_info |-> FALSE, classes_info |-> PyNone,
                 uml_path |-> "UML_test.png"]
        loaded == load_from_json(json_path)
        given == [base EXCEPT !.has_classes_info = TRUE, !.classes_info = ci]
        err == IF truthy(ci) /\ json_path # "" THEN TwoSourcesError
               ELSE IF json_path # "" THEN loaded.raised
               ELSE IF truthy(ci) THEN UMLCreator_validate_classes_info(given)
               ELSE NoError
    IN /\ creator.class \in {"none", "JSONSaver"}
       /\ creator' = IF err # NoError THEN NoCreator
                     ELSE IF json_path # ""
                          THEN [base EXCEPT !.has_classes_info = TRUE, !.classes_info = loaded.data]
                     ELSE IF truthy(ci) THEN given
                     ELSE base
       /\ outcome' = Outcome("__init__", err)
       /\ UNCHANGED <<classes_info, classes_path, py_files, reported, files>>

\* save_to_json, dispatching _validate_classes_info on the object's class;
\* UMLCreator's override returns None, which "not" turns into the ValueError
save_to_json ==
    LET err == IF ~creator.has_classes_info THEN "AttributeError"
               ELSE IF creator.class = "JSONSaver" THEN JSONSaver_validate_classes_info(creator)
               ELSE IF UMLCreator_validate_classes_info(creator) # NoError
                    THEN UMLCreator_validate_classes_info(creator)
               ELSE NotValidError
    IN /\ creator # NoCreator
       /\ outcome' = Outcome("save_to_json", err)
       /\ files' = IF err = NoError THEN DictSet(files, creator.json_path, creator.classes_info)
                   ELSE files
       /\ UNCHANGED <<classes_info, classes_path, py_files, reported, creator>>

\* render_dot: temp.dot is written, then the dot tool runs and may fail
render_dot(dot_code, output_file, tool_ok) ==
    /\ files' = IF tool_ok
                THEN DictSet(DictSet(files, DotPath, dot_code), output_file, [type |-> "png", of |-> dot_code])
                ELSE DictSet(files, DotPath, dot_code)
    /\ outcome' = Outcome("create_uml", IF tool_ok THEN NoError ELSE "CalledProcessError")

create_uml ==
    /\ creator.class = "UMLCreator"
    /\ IF ~creator.has_classes_info
       THEN outcome' = Outcome("create_uml", "AttributeError") /\ files' = files
       ELSE IF ~truthy(creator.classes_info)
       THEN outcome' = Outcome("create_uml", EmptyModelError) /\ files' = files
       ELSE IF generate_dot(creator).raised # NoError
       THEN outcome' = Outcome("create_uml", generate_dot(creator).raised) /\ files' = files
       ELSE \E tool_ok \in BOOLEAN : render_dot(generate_dot(creator).dot, creator.uml_path, tool_ok)
    /\ UNCHANGED <<classes_info, classes_path, py_files, reported, creator>>

(***************************************************************************)
(* Source units handed to the extraction pass                              *)
(***************************************************************************)
SeqsUpTo(S, n) == UNION {[1..k -> S] : k \in 0..n}

Unit(file_path, parses, tree) == [file_path |-> file_path, parses |-> parses, tree |-> tree]

\* the files of the project, in the order os.walk yields them
Paths == <<<<"proj", "a.py">>, <<"proj", "b.py">>, <<"proj", "pkg", "c.py">>, <<"proj", "pkg", "d.py">>>>

ClassNames == {"A", "B"}

SelfArg == Arg("self", Absent)

\* class definitions of the multi-unit pass: a literal attribute; non-simple
\* bases and an annotated attribute; a method whose return annotation cannot
\* be unparsed, after one that can; a nested class of the same name
PassClassDefs ==
    UNION {{ClassDef(n, <<>>, <<Assign(<<Name("x")>>, Constant("int"))>>),
            ClassDef(n, <<Name("Base"), Attribute(Name("m"), "D")>>,
                     <<AnnAssign(Name("y"), Name("str"))>>),
            ClassDef(n, <<>>, <<FunctionDef("g", <<>>, <<SelfArg>>, Absent, <<Pass>>),
                                FunctionDef("f", <<>>, <<SelfArg>>, Deep, <<Pass>>)>>),
            ClassDef(n, <<>>, <<ClassDef(n, <<Name("Base")>>,
                                         <<Assign(<<Name("z")>>, Constant("str"))>>)>>)}
           : n \in ClassNames}

\* the top-level classes of a unit have different names
PassTrees ==
    {t \in SeqsUpTo(PassClassDefs, MaxClasses) : \A i, j \in DOMAIN t : t[i].name = t[j].name => i = j}

\* what the file at path p may hold: class definitions, or text ast.parse rejects
PassUnits(p) ==
    {Unit(p, TRUE, t) : t \in PassTrees} \cup {Unit(p, FALSE, <<>>)}

\* statements of an initializer body
InitStmts ==
    {Assign(<<Attribute(Name("self"), "x")>>, Constant("int")),
     AnnAssign(Attribute(Name("self"), "y"), Name("int")),
     Assign(<<Attribute(Name("other"), "x"), Attribute(Attribute(Name("self"), "a"), "y")>>,
            Call(Name("f")))}

\* statements of a class body
ClassItems ==
    {Assign(<<Name("x")>>, Constant("int")),
     Assign(<<Name("y"), TupleExpr>>, Call(Name("f"))),
     AnnAssign(Name("x"), Name("str")),
     AnnAssign(Attribute(Name("A"), "x"), Subscript(Name("List"), Name("int"))),
     FunctionDef("f", <<>>, <<SelfArg>>, Absent, <<Pass>>),
     FunctionDef("f", <<Name("property"), Call(Name("wraps"))>>, <<SelfArg>>, Name("int"), <<Pass>>),
     FunctionDef("g", <<>>, <<SelfArg>>, Absent, <<Pass>>)}
    \cup {FunctionDef("__init__", <<>>, <<SelfArg>>, Absent, b) : b \in SeqsUpTo(InitStmts, MaxInitBody)}

ClassUnits ==
    {Unit(<<"proj", "a.py">>, TRUE, <<ClassDef("A", <<>>, b)>>) : b \in SeqsUpTo(ClassItems, MaxBody)}

\* positional parameters of a method
Args == {Arg(n, a) : n \in {"self", "cls", "x"}, a \in {Absent, Name("int")}}

MethodUnits ==
    {Unit(<<"proj", "a.py">>, TRUE,
          <<ClassDef("A", <<>>, <<FunctionDef("f", <<>>, a, Absent, <<Pass>>)>>)>>)
     : a \in SeqsUpTo(Args, MaxArgs)}

(***************************************************************************)
(* Specifications                                                          *)
(***************************************************************************)
Init ==
    /\ classes_info = EmptyDict
    /\ classes_path = EmptyDict
    /\ py_files = <<>>
    /\ reported = <<>>
    /\ creator = NoCreator
    /\ files = EmptyDict
    /\ outcome = Outcome("none", NoError)

\* the pass over a project: the next file of os.walk
ParseNextFile ==
    /\ Len(py_files) < MaxFiles
    /\ Len(py_files) < Len(Paths)
    /\ \E u \in PassUnits(Paths[Len(py_files) + 1]) : parse_file(u)

\* a project of one file holding one class
ParseClassFile == \E u \in ClassUnits : py_files = <<>> /\ parse_file(u)

\* a project of one file holding one class with one method
ParseMethodFile == \E u \in MethodUnits : py_files = <<>> /\ parse_file(u)

NextPass == ParseNextFile

SpecPass == Init /\ [][NextPass]_vars

NextExtract == ParseClassFile \/ ParseMethodFile

SpecExtract == Init /\ [][NextExtract]_vars

(***************************************************************************)
(* Models handed to the writers                                            *)
(***************************************************************************)
MethodDict(name, return_type) ==
    PyDict(<<[key |-> "name", value |-> name], [key |-> "args", value |-> PyList(<<>>)],
             [key |-> "decorators", value |-> PyList(<<>>)],
             [key |-> "return_type", value |-> return_type]>>)

Info(attributes, methods, parent_classes) ==
    PyDict(<<[key |-> "attributes", value |-> attributes],
             [key |-> "methods", value |-> methods],
             [key |-> "parent_classes", value |-> PyList(parent_classes)]>>)

OneAttribute == PyDict(<<[key |-> "x", value |-> "int"]>>)
OneMethod == PyList(<<MethodDict("f", "int")>>)

\* infos of the shape the extractor builds; "Ext" names no class of the model
WellFormedInfos ==
    {Info(am[1], am[2], p) :
        am \in {<<PyDict(<<>>), PyList(<<>>)>>, <<OneAttribute, OneMethod>>},
        p \in {<<>>, <<"B", "Ext", "B">>}}

WithoutKey(info, k) == PyDict(SelectSeq(info.items, LAMBDA kv : kv.key # k))

MalformedInfos ==
    {WithoutKey(Info(OneAttribute, OneMethod, <<>>), k) : k \in required_keys}
    \cup {Info(PyList(<<>>), OneMethod, <<>>)}
    \cup {Info(OneAttribute, m, <<>>) :
            m \in {PyList(<<MethodDict("f", "int"), PyStr("g")>>),
                   PyDict(<<>>),
                   PyDict(<<[key |-> "f", value |-> "int"]>>),
                   PyInt}}

\* the keys of a model, in insertion order
ModelNames == <<"A", "B", "C", "D">>

Models ==
    {PyDict([i \in DOMAIN vs |-> [key |-> ModelNames[i], value |-> vs[i]]]) :
        vs \in SeqsUpTo(WellFormedInfos \cup MalformedInfos, MaxModelClasses)}

\* the JSON file may exist before the run, holding an empty object
InitOut ==
    /\ classes_info = EmptyDict
    /\ classes_path = EmptyDict
    /\ py_files = <<>>
    /\ reported = <<>>
    /\ creator = NoCreator
    /\ files \in {EmptyDict, <<[key |-> JsonPath, value |-> PyDict(<<>>)]>>}
    /\ outcome = Outcome("none", NoError)

\* a run builds one JSONSaver or one UMLCreator, or, as main() does, a
\* JSONSaver and then a UMLCreator reading the file the saver wrote
Fresh == creator = NoCreator /\ outcome.op = "none"

ConstructJSONSaver == \E ci \in Models \cup {PyNone} : Fresh /\ NewJSONSaver(ci)

ConstructUMLCreator == \E ci \in Models \cup {PyNone} : Fresh /\ NewUMLCreator(ci, "")

\* with json_path given, classes_info is left out or is the saver's model
ConstructUMLCreatorFromJson ==
    \E ci \in {PyNone} \cup (IF creator.class = "JSONSaver" THEN {creator.classes_info} ELSE {}) :
        /\ Fresh \/ creator.class = "JSONSaver"
        /\ NewUMLCreator(ci, JsonPath)

NextOut ==
    \/ ConstructJSONSaver
    \/ ConstructUMLCreator
    \/ ConstructUMLCreatorFromJson
    \/ save_to_json
    \/ create_uml

SpecOut == InitOut /\ [][NextOut]_vars

(***************************************************************************)
(* Properties of the writers (SpecOut)                                     *)
(***************************************************************************)
Count(S) == Cardinality(S)

Occurrences(s, x) == Count({i \in DOMAIN s : s[i] = x})

\* C1: the graph description written for a registry with at least one class
\* holds exactly one node block per key of the registry and, for every class
\* and every name p, as many edge statements "p -> class [arrowhead=onormal];"
\* as p occurs in the class's parent_classes, whether or not p is a key; it
\* holds no other node block or edge.
C1_OneNodePerClassOneEdgePerParent ==
    DictHas(files, DotPath) =>
        LET dot == DictGet(files, DotPath)
            R == creator.classes_info.items
            Nodes == {l \in DOMAIN dot : dot[l].kind = "node"}
            Edges == {l \in DOMAIN dot : dot[l].kind = "edge"}
        IN /\ Len(R) >= 1
           /\ \A i \in DOMAIN R : Count({l \in Nodes : dot[l].class_name = R[i].key}) = 1
           /\ Count(Nodes) = Len(R)
           /\ \A l \in Edges :
                /\ DictHas(R, dot[l].head)
                /\ dot[l].text = dot[l].tail \o " -> " \o dot[l].head \o " [arrowhead=onormal];"
                /\ Count({m \in Edges : dot[m].head = dot[l].head /\ dot[m].tail = dot[l].tail})
                     = Occurrences(DictGet(DictGet(R, dot[l].head).items, "parent_classes").items,
                                   dot[l].tail)
           /\ \A i \in DOMAIN R :
                \A k \in DOMAIN DictGet(R[i].value.items, "parent_classes").items :
                    \E l \in Edges :
                        /\ dot[l].head = R[i].key
                        /\ dot[l].tail = DictGet(R[i].value.items, "parent_classes").items[k]

\* a description was written that holds an edge from a name that is no class of the registry
C1_Witness ==
    /\ outcome.op = "create_uml"
    /\ DictHas(files, DotPath)
    /\ \E l \in DOMAIN DictGet(files, DotPath) :
          /\ DictGet(files, DotPath)[l].kind = "edge"
          /\ ~DictHas(creator.classes_info.items, DictGet(files, DotPath)[l].tail)

ZeroClasses(c) == ~c.has_classes_info \/ ~truthy(c.classes_info)

\* C2: create_uml on a UMLCreator whose registry has zero classes (built from
\* an empty or absent classes_info included) ends in the empty-model error,
\* and neither the graph description nor the picture is written.
C2_EmptyModelFails ==
    (creator.class = "UMLCreator" /\ ZeroClasses(creator) /\ outcome.op = "create_uml")
    => /\ outcome.result = EmptyModelError
       /\ ~DictHas(files, DotPath)
       /\ ~DictHas(files, creator.uml_path)

MalformedInfo(info) ==
    \/ ~(required_keys \subseteq DictKeys(info.items))
    \/ DictGet(info.items, "attributes").type # "dict"
    \/ DictGet(info.items, "methods").type # "list"
    \/ \E i \in DOMAIN DictGet(info.items, "methods").items :
          DictGet(info.items, "methods").items[i].type # "dict"

Malformed(ci) ==
    ci.type = "dict" /\ \E i \in DOMAIN ci.items : MalformedInfo(ci.items[i].value)

ShapeErrors == {"KeyError", "TypeError", "AttributeError", NotValidError}

\* C8: save_to_json or create_uml on a model in which some class lacks one of
\* the keys attributes/methods/parent_classes, or whose attributes is no
\* mapping, or whose methods is no sequence of records, ends in a model-shape
\* error and writes no file.
C8_ShapeErrorBeforeWrite ==
    (/\ creator # NoCreator
     /\ creator.has_classes_info
     /\ Malformed(creator.classes_info)
     /\ outcome.op \in {"save_to_json", "create_uml"})
    => /\ outcome.result \in ShapeErrors
       /\ outcome.op = "save_to_json" =>
             ~(DictHas(files, JsonPath) /\ DictGet(files, JsonPath) = creator.classes_info)
       /\ outcome.op = "create_uml" => ~DictHas(files, DotPath)

(***************************************************************************)
(* Properties of the extraction of one class (SpecExtract)                 *)
(***************************************************************************)
Extracted == Len(py_files) = 1 /\ ~reported[1] /\ Len(py_files[1].tree) = 1

TheClass == py_files[1].tree[1]

TheInfo == DictGet(classes_info, TheClass.name)

IsSelfAttribute(t) == t.node = "Attribute" /\ t.value.node = "Name" /\ t.value.id = "self"

\* every write of an attribute label the statements of a class body ask for,
\* with its position (body index, initializer statement index, target index)
Contributions(body) ==
    {[pos |-> <<i, 0, k>>, name |-> body[i].targets[k].id, layer |-> 1,
      label |-> IF body[i].value.node = "Constant" THEN body[i].value.type ELSE "Any"] :
        <<i, k>> \in {ik \in (DOMAIN body) \X (1..4) :
                        /\ body[ik[1]].node = "Assign"
                        /\ ik[2] \in DOMAIN body[ik[1]].targets
                        /\ body[ik[1]].targets[ik[2]].node = "Name"}}
    \cup
    {[pos |-> <<i, 0, 0>>, name |-> body[i].target.id, layer |-> 2,
      label |-> unparse(body[i].annotation)] :
        i \in {j \in DOMAIN body : body[j].node = "AnnAssign" /\ body[j].target.node = "Name"}}
    \cup
    {[pos |-> ijk, name |-> body[ijk[1]].body[ijk[2]].targets[ijk[3]].attr, layer |-> 3,
      label |-> "Any"] :
        ijk \in {x \in (DOMAIN body) \X (1..4) \X (1..4) :
                    /\ body[x[1]].node = "FunctionDef"
                    /\ body[x[1]].name = "__init__"
                    /\ x[2] \in DOMAIN body[x[1]].body
                    /\ body[x[1]].body[x[2]].node = "Assign"
                    /\ x[3] \in DOMAIN body[x[1]].body[x[2]].targets
                    /\ IsSelfAttribute(body[x[1]].body[x[2]].targets[x[3]])}}

Before(p, q) ==
    \/ p[1] < q[1]
    \/ p[1] = q[1] /\ p[2] < q[2]
    \/ p[1] = q[1] /\ p[2] = q[2] /\ p[3] < q[3]

\* C4 as claimed: whatever the order of the statements, the label of a name
\* is one written by the highest layer (plain < annotated < initializer)
\* that contributes the name.
C4_LayeredPrecedence ==
    Extracted =>
        \A c \in Contributions(TheClass.body) :
            (\A d \in Contributions(TheClass.body) : d.name = c.name => d.layer <= c.layer)
            => /\ DictHas(TheInfo.attributes, c.name)
               /\ DictGet(TheInfo.attributes, c.name) \in
                     {d.label : d \in {e \in Contributions(TheClass.body) :
                                          e.name = c.name /\ e.layer = c.layer}}

\* C4 amended: the attribute names are the contributed names, and the label
\* of a name is the one written by its last contribution in the textual
\* order of the class body, the initializer's writes counting at the place
\* of the initializer's definition.
C4_LastContributionWins ==
    Extracted =>
        /\ DictKeys(TheInfo.attributes) = {c.name : c \in Contributions(TheClass.body)}
        /\ \A c \in Contributions(TheClass.body) :
              (\A d \in Contributions(TheClass.body) : d.name = c.name => ~Before(c.pos, d.pos))
              => DictGet(TheInfo.attributes, c.name) = c.label

\* a lower layer wrote a name after a higher layer did, with another label, and its label stands
C4_Witness ==
    /\ Extracted
    /\ \E c, d \in Contributions(TheClass.body) :
          /\ c.name = d.name /\ c.layer > d.layer /\ c.label # d.label
          /\ Before(c.pos, d.pos)
          /\ DictGet(TheInfo.attributes, c.name) = d.label

MethodDefs(body) ==
    SelectSeq(body, LAMBDA b : b.node = "FunctionDef" /\ b.name # "__init__")

\* C5 as claimed: the method names of a class model are pairwise distinct,
\* and so are its attribute names.
C5_MethodNamesDistinct ==
    \A c \in DOMAIN classes_info :
        LET info == classes_info[c].value
        IN /\ \A i, j \in DOMAIN info.methods : info.methods[i].name = info.methods[j].name => i = j
           /\ \A i, j \in DOMAIN info.attributes :
                 info.attributes[i].key = info.attributes[j].key => i = j

\* C5 amended: attribute names are pairwise distinct keys; methods holds one
\* entry per function definition of the class body other than __init__, in
\* body order, so two definitions of one name yield two entries of that name.
C5_OneEntryPerDefinition ==
    Extracted =>
        /\ Len(TheInfo.methods) = Len(MethodDefs(TheClass.body))
        /\ \A i \in DOMAIN TheInfo.methods :
              /\ TheInfo.methods[i].name = MethodDefs(TheClass.body)[i].name
              /\ TheInfo.methods[i].return_type =
                    (IF MethodDefs(TheClass.body)[i].returns = Absent THEN "None"
                     ELSE unparse(MethodDefs(TheClass.body)[i].returns))
        /\ \A i, j \in DOMAIN TheInfo.attributes :
              TheInfo.attributes[i].key = TheInfo.attributes[j].key => i = j

\* two definitions of one method name were extracted
C5_Witness ==
    /\ Extracted
    /\ \E i, j \in DOMAIN TheInfo.methods :
          i < j /\ TheInfo.methods[i].name = TheInfo.methods[j].name

FormatArg(a) ==
    a.arg \o ": " \o (IF a.annotation = Absent THEN "Any" ELSE unparse(a.annotation))

FormatArgs(as) == [i \in DOMAIN as |-> FormatArg(as[i])]

\* C6 as claimed: the recorded args of a method are its positional
\* parameters without the first one, whatever the names.
C6_FirstParameterDropped ==
    Extracted =>
        \A i \in DOMAIN TheInfo.methods :
            i \in DOMAIN MethodDefs(TheClass.body) =>
                TheInfo.methods[i].args =
                    FormatArgs(IF MethodDefs(TheClass.body)[i].args = <<>> THEN <<>>
                               ELSE Tail(MethodDefs(TheClass.body)[i].args))

\* C6 amended: the recorded args of a method are its positional parameters
\* (arguments.args) that are not named self, wherever they stand, each as
\* "name: annotation" or "name: Any", in declaration order.
C6_SelfParametersDropped ==
    Extracted =>
        \A i \in DOMAIN TheInfo.methods :
            i \in DOMAIN MethodDefs(TheClass.body) =>
                TheInfo.methods[i].args =
                    FormatArgs(SelectSeq(MethodDefs(TheClass.body)[i].args, LAMBDA a : a.arg # "self"))

\* a method was extracted whose first parameter is not self and stays, or
\* which has a later parameter self that goes
C6_Witness ==
    /\ Extracted
    /\ \E i \in DOMAIN TheInfo.methods :
          LET as == MethodDefs(TheClass.body)[i].args
          IN /\ Len(as) >= 2
             /\ as[1].arg # "self"
             /\ as[2].arg = "self"
             /\ TheInfo.methods[i].args = FormatArgs(SelectSeq(as, LAMBDA a : a.arg # "self"))

\* C7: every top-level assignment to an attribute of self in __init__ adds
\* the attribute name to attributes, a statement with an annotation
\* (self.x: T = ...) with the annotation's text when nothing else writes the
\* name; __init__ is no entry of methods.
C7_InitAttributes ==
    Extracted =>
        /\ \A i \in DOMAIN TheInfo.methods : TheInfo.methods[i].name # "__init__"
        /\ \A i \in DOMAIN TheClass.body :
              (TheClass.body[i].node = "FunctionDef" /\ TheClass.body[i].name = "__init__") =>
                  \A j \in DOMAIN TheClass.body[i].body :
                      LET stmt == TheClass.body[i].body[j]
                      IN /\ stmt.node = "Assign" =>
                               \A k \in DOMAIN stmt.targets :
                                   IsSelfAttribute(stmt.targets[k]) =>
                                       DictHas(TheInfo.attributes, stmt.targets[k].attr)
                         /\ (stmt.node = "AnnAssign" /\ IsSelfAttribute(stmt.target)) =>
                               /\ DictHas(TheInfo.attributes, stmt.target.attr)
                               /\ (\A c \in Contributions(TheClass.body) : c.name # stmt.target.attr)
                                     => DictGet(TheInfo.attributes, stmt.target.attr)
                                           = unparse(stmt.annotation)

(***************************************************************************)
(* Properties of the pass over several units (SpecPass)                    *)
(***************************************************************************)
Max(S) == CHOOSE x \in S : \A y \in S : y <= x

ClassDefsOf(u) ==
    IF u.parses THEN {walk(u.tree)[i] : i \in {j \in DOMAIN walk(u.tree) : walk(u.tree)[j].node = "ClassDef"}}
    ELSE {}

DeclaredNames(u) == {n.name : n \in ClassDefsOf(u)}

\* the unit extracted into a registry of its own
Alone(u) == register_classes(ParserState(EmptyDict, EmptyDict, FALSE), u.file_path, u.tree)

\* the names unit u writes an entry for: all it declares, or those its walk reaches before it raises
RegisteredNames(u) == IF u.parses THEN DictKeys(Alone(u).classes_info) ELSE {}

Declaring(n) == {j \in DOMAIN py_files : n \in DeclaredNames(py_files[j])}

\* C3: when a class name is declared in two or more units and the last of
\* them was processed without failure, the registry holds exactly one entry
\* for the name, and its attributes, methods and parent_classes are those the
\* last unit alone yields: nothing of the earlier entry is left.
C3_LastUnitWins ==
    \A n \in ClassNames :
        (Count(Declaring(n)) >= 2 /\ ~reported[Max(Declaring(n))]) =>
            /\ Count({i \in DOMAIN classes_info : classes_info[i].key = n}) = 1
            /\ DictGet(classes_info, n) = DictGet(Alone(py_files[Max(Declaring(n))]).classes_info, n)

\* two units declared one name with different contents, and the later one stands
C3_Witness ==
    \E n \in ClassNames :
        /\ Count(Declaring(n)) >= 2
        /\ ~reported[Max(Declaring(n))]
        /\ \E j \in Declaring(n) :
              /\ j < Max(Declaring(n))
              /\ ~reported[j]
              /\ DictGet(Alone(py_files[j]).classes_info, n) # DictGet(classes_info, n)
              /\ DictGet(Alone(py_files[j]).classes_info, n).attributes # EmptyDict

RECURSIVE Replay(_, _)
Replay(st, i) ==
    IF i > Len(py_files) THEN st
    ELSE Replay(IF reported[i] THEN st
                ELSE register_classes(st, py_files[i].file_path, py_files[i].tree), i + 1)

\* C9: the registry is the one the units that did not fail yield, processed
\* in the same order: a unit that failed to parse or failed during the walk
\* has left no entry, not even a partial one.
C9_FailingUnitsLeaveNothing ==
    /\ classes_info = Replay(ParserState(EmptyDict, EmptyDict, FALSE), 1).classes_info
    /\ classes_path = Replay(ParserState(EmptyDict, EmptyDict, FALSE), 1).classes_path

Registering(n) == {j \in DOMAIN py_files : n \in RegisteredNames(py_files[j])}

C10_State ==
    /\ DictKeys(classes_path) = DictKeys(classes_info)
    /\ \A n \in DictKeys(classes_info) :
          /\ Registering(n) # {}
          /\ project_path \o DictGet(classes_path, n) = py_files[Max(Registering(n))].file_path

C10_Step ==
    Len(py_files') = Len(py_files) + 1 =>
        \A n \in ClassNames \ DeclaredNames(py_files'[Len(py_files')]) :
            /\ DictHas(classes_info', n) = DictHas(classes_info, n)
            /\ DictHas(classes_path', n) = DictHas(classes_path, n)
            /\ DictHas(classes_info, n) => DictGet(classes_info', n) = DictGet(classes_info, n)
            /\ DictHas(classes_path, n) => DictGet(classes_path', n) = DictGet(classes_path, n)

\* C10: classes_path and classes_info have the same keys, and the path of a
\* name is the path, relative to the project, of the unit that wrote the
\* registry's current entry of the name; registering a unit leaves the
\* entries of the names it does not declare unchanged in both maps.
C10_OriginIndex == [](C10_State) /\ [][C10_Step]_vars

\* a name registered by two units carries the path of the later one
C10_Witness ==
    \E n \in DictKeys(classes_info) :
        /\ Count(Registering(n)) >= 2
        /\ project_path \o DictGet(classes_path, n) = py_files[Max(Registering(n))].file_path

====
